---- MODULE Spec2Model ----
(***************************************************************************)
(* custom_whisper.py: a command-line tool that transcribes one audio file  *)
(* with the whisper engine and writes the text to                          *)
(* <output>/<YY>/<MM>/<DDHH>/<mmss>.txt.                                   *)
(*                                                                         *)
(* Each process in Procs is one invocation of main.  The filesystem (dirs, *)
(* files) and the wall clock are shared by the invocations.  Paths and     *)
(* transcripts are sequences of one-character strings, so that joining,    *)
(* zero-padding and overwriting are computed character by character.       *)
(***************************************************************************)
EXTENDS Integers, Sequences, FiniteSets, TLC

\* ------------------------------------------------------------------ bounds
Procs == {1, 2}
MaxTick == 1
MaxTextLen == 2
Letters == <<"a", "b", "c", "d">>

\* ------------------------------------------------------- Python values
None == [tag |-> "None"]
Str(s) == [tag |-> "str", s |-> s]
\* truth value of an optional string: None and "" are false
Truthy(v) == v.tag = "str" /\ Len(v.s) > 0

IsPrefix(s, t) == Len(s) <= Len(t) /\ SubSeq(t, 1, Len(s)) = s

\* ------------------------------------------------- formatting and paths
DigitChar(d) ==
  CASE d = 0 -> "0" [] d = 1 -> "1" [] d = 2 -> "2" [] d = 3 -> "3"
    [] d = 4 -> "4" [] d = 5 -> "5" [] d = 6 -> "6" [] d = 7 -> "7"
    [] d = 8 -> "8" [] d = 9 -> "9"

RECURSIVE Dec(_)
Dec(n) == IF n < 10 THEN <<DigitChar(n)>>
          ELSE Dec(n \div 10) \o <<DigitChar(n % 10)>>

Format02dNoPad(n) == Dec(n)

\* the format spec :02d : decimal, zero-filled to a minimum width of 2
Format02d(n) == LET d == Dec(n) IN IF Len(d) < 2 THEN <<"0">> \o d ELSE d

\* os.path.join of two components (POSIX)
PathJoin(a, b) ==
  IF Len(b) > 0 /\ b[1] = "/" THEN b
  ELSE IF Len(a) = 0 \/ a[Len(a)] = "/" THEN a \o b
  ELSE a \o <<"/">> \o b

YearMonth(t) == Format02d(t.year % 100) \o <<"/">> \o Format02d(t.month)
DayHour(t) == Format02d(t.day) \o Format02d(t.hour)
DirPath(base_dir, t) == PathJoin(PathJoin(base_dir, YearMonth(t)), DayHour(t))
TimeSuffix(t) == Format02d(t.minute) \o Format02d(t.second)
OutputFile(output_dir, time_suffix) ==
  PathJoin(output_dir, time_suffix \o <<".", "t", "x", "t">>)

\* the directories os.makedirs(path) makes sure exist: path and its ancestors
AncestorDirs(path) ==
  {SubSeq(path, 1, i - 1) : i \in {j \in 2..Len(path) : path[j] = "/"}} \cup {path}

\* a makedirs call that fails part-way leaves the ancestors of at most len chars
PartialDirs(path, len) == {d \in AncestorDirs(path) : Len(d) <= len /\ d # path}

MakedirsRaisesNoExistOk(path, ds, fault) == fault \/ path \in ds

\* os.makedirs(dir_path, exist_ok=True) raises only on an OS fault
MakedirsRaises(path, ds, fault) == fault

\* ------------------------------------------------------------ the clock
\* datetime.now() at tick i; tick 0 is 2024-03-07 14:05:09
TimeAt(i) == [year |-> 2024, month |-> 3, day |-> 7,
              hour |-> 14, minute |-> 5, second |-> 9 + i]

\* ------------------------------------------------------- command lines
DefaultOutput == <<"o", "u", "t", "p", "u", "t">>
OtherOutput == <<"o", "u", "t", "/">>
TaskChoices == {"transcribe", "translate"}
AudioOnDisk == {"sample.wav"}

Cmd(audio, output, language, task) ==
  [audio |-> audio, model |-> None, output |-> output,
   language |-> language, task |-> task]

\* a flag that is not given is None
CommandLines ==
  { Cmd("sample.wav", None, None, None),
    Cmd("sample.wav", None, None, Str("translate")),
    Cmd("sample.wav", None, Str(""), Str("transcribe")),
    Cmd("sample.wav", Str(OtherOutput), Str("en"), Str("translate")),
    Cmd("missing.wav", None, None, None),
    Cmd("missing.wav", None, None, Str("summarize")) }

Default(v, d) == IF v.tag = "None" THEN d ELSE v.s

\* argparse rejects a --task outside choices
ParseFails(cmd) == cmd.task # None /\ cmd.task.s \notin TaskChoices

ParseArgs(cmd) ==
  [audio |-> cmd.audio,
   model |-> Default(cmd.model, "tiny"),
   output |-> Default(cmd.output, DefaultOutput),
   language |-> cmd.language,
   task |-> Default(cmd.task, "transcribe")]

AudioMissingNoCheck(a) == FALSE

\* not os.path.exists(args.audio)
AudioMissing(a) == a.audio \notin AudioOnDisk

\* ---------------------------------------------------- transcribe_audio
EmptyOptions == [k \in {} |-> ""]

TranscribeOptionsLanguageNotNone(language, task) ==
  LET o1 == IF language # None THEN ("language" :> language.s) ELSE EmptyOptions
  IN IF Truthy(task) THEN ("task" :> task.s) @@ o1 ELSE o1

TranscribeOptionsNoTask(language, task) ==
  IF Truthy(language) THEN ("language" :> language.s) ELSE EmptyOptions

TranscribeOptions(language, task) ==
  LET o1 == IF Truthy(language) THEN ("language" :> language.s) ELSE EmptyOptions
  IN IF Truthy(task) THEN ("task" :> task.s) @@ o1 ELSE o1

\* the text of n characters that the engine may return
Word(n) == [i \in 1..n |-> Letters[n]]

\* the texts the engine may return: one of each length
Texts == {Word(n) : n \in 0..MaxTextLen}

WrittenTextFramed(result) == result.text \o <<"\n">>

\* the argument of f.write
WrittenText(result) == result.text

OpenTruncateKeep(content) == content

\* open(output_file, "w") empties the file
OpenTruncate(content) == <<>>

\* bytes written at offset 0 of a file that holds old
Overlay(old, new) == new \o SubSeq(old, Len(new) + 1, Len(old))

ExceptDirsCleanup(ds, output_dir) == ds \ {output_dir}

\* the except block leaves the filesystem as it is
ExceptDirs(ds, output_dir) == ds

MainExitAlwaysZero(output_file) == 0

\* main after transcribe_audio returned: sys.exit(1) if not output_file
MainExit(output_file) == IF ~Truthy(output_file) THEN 1 ELSE 0

AfterFailureRetry(stage) == IF stage = "transcribe" THEN "load_model" ELSE "exited"

\* where control goes once the except block has run: back to main, which exits
AfterFailure(stage) == "exited"

Running == [tag |-> "running"]
ExitWith(c) == [tag |-> "exit", code |-> c]

\* ---------------------------------------------------------------- state
VARIABLES
  clock,            \* the wall clock, in ticks of one second
  dirs,             \* the directories that exist
  files,            \* path -> [content, by]: the files and who wrote last
  pc,               \* where each invocation stands
  argv,             \* its command line
  args,             \* parser.parse_args()
  now,              \* datetime.now() as read by create_datetime_directory
  output_dir,       \* the pair returned by create_datetime_directory
  time_suffix,
  result,           \* what model.transcribe returned
  output_file,      \* what transcribe_audio returned
  exit,             \* the process's exit status
  console,          \* what it printed
  steps,            \* the external steps it took, in order
  loadCalls,        \* the calls of whisper.load_model
  transcribeCalls,  \* the calls of model.transcribe
  failed,           \* the step that raised, "" if none
  mkFault,          \* whether the OS failed its makedirs call
  order,            \* the invocations in the order they started
  overlap,          \* an invocation started while another was running
  dirsAtStart,      \* the filesystem when the invocation started (kept for runs one after the other)
  filesAtStart,
  dirsAfterMk,      \* the directories right after its makedirs call
  pb                \* one call of the path computation on its own

procVars == <<pc, argv, args, now, output_dir, time_suffix, result, output_file,
              exit, console, steps, loadCalls, transcribeCalls, failed, mkFault,
              order, overlap, dirsAtStart, filesAtStart, dirsAfterMk>>
vars == <<clock, dirs, files, procVars, pb>>

NoFiles == [f \in {} |-> None]
Content(fs, path) == IF path \in DOMAIN fs THEN fs[path].content ELSE <<>>
WriterOf(fs, path) == IF path \in DOMAIN fs THEN fs[path].by ELSE 0
Active(q) == pc[q] \notin {"idle", "exited"}

PathCalled(base, t) ==
  LET d == DirPath(base, t)
      s == TimeSuffix(t)
  IN [base |-> base, t |-> t, called |-> TRUE,
      dir |-> d, stem |-> s, file |-> OutputFile(d, s)]

ProcInit ==
  /\ pc = [p \in Procs |-> "idle"]
  /\ argv = [p \in Procs |-> None]
  /\ args = [p \in Procs |-> None]
  /\ now = [p \in Procs |-> None]
  /\ output_dir = [p \in Procs |-> None]
  /\ time_suffix = [p \in Procs |-> None]
  /\ result = [p \in Procs |-> None]
  /\ output_file = [p \in Procs |-> None]
  /\ exit = [p \in Procs |-> Running]
  /\ console = [p \in Procs |-> <<>>]
  /\ steps = [p \in Procs |-> <<>>]
  /\ loadCalls = [p \in Procs |-> <<>>]
  /\ transcribeCalls = [p \in Procs |-> <<>>]
  /\ failed = [p \in Procs |-> ""]
  /\ mkFault = [p \in Procs |-> FALSE]
  /\ order = <<>>
  /\ overlap = FALSE
  /\ dirsAtStart = [p \in Procs |-> {}]
  /\ filesAtStart = [p \in Procs |-> NoFiles]
  /\ dirsAfterMk = [p \in Procs |-> {}]
  /\ clock = 0
  /\ dirs = {}
  /\ files = NoFiles

Init == ProcInit /\ pb = PathCalled(DefaultOutput, TimeAt(0))

\* ------------------------------------------------------------- actions
Say(p, line) == console' = [console EXCEPT ![p] = Append(@, line)]

\* the except block of transcribe_audio, then the rest of main
Except(p, stage) ==
  /\ failed' = [failed EXCEPT ![p] = stage]
  /\ console' = [console EXCEPT ![p] = Append(@, [kind |-> "error", stage |-> stage])]
  /\ output_file' = [output_file EXCEPT ![p] = None]
  /\ pc' = [pc EXCEPT ![p] = AfterFailure(stage)]
  /\ IF AfterFailure(stage) = "exited"
       THEN /\ exit' = [exit EXCEPT ![p] = ExitWith(MainExit(None))]
            /\ steps' = [steps EXCEPT ![p] = @ \o <<stage, "exit">>]
       ELSE /\ exit' = exit
            /\ steps' = [steps EXCEPT ![p] = Append(@, stage)]

\* main up to the call of transcribe_audio: parse the command line and make
\* sure the audio file exists
Start(p, exclusive) ==
  /\ pc[p] = "idle"
  /\ exclusive => \A q \in Procs \ {p} : ~Active(q)
  /\ order' = Append(order, p)
  /\ overlap' = (overlap \/ \E q \in Procs \ {p} : Active(q))
  /\ IF exclusive
       THEN /\ dirsAtStart' = [dirsAtStart EXCEPT ![p] = dirs]
            /\ filesAtStart' = [filesAtStart EXCEPT ![p] = files]
       ELSE UNCHANGED <<dirsAtStart, filesAtStart>>
  /\ \E cmd \in CommandLines :
       /\ argv' = [argv EXCEPT ![p] = cmd]
       /\ IF ParseFails(cmd)
            THEN /\ args' = args
                 /\ Say(p, [kind |-> "usage"])
                 /\ steps' = [steps EXCEPT ![p] = <<"parse", "exit">>]
                 /\ exit' = [exit EXCEPT ![p] = ExitWith(2)]
                 /\ pc' = [pc EXCEPT ![p] = "exited"]
            ELSE /\ args' = [args EXCEPT ![p] = ParseArgs(cmd)]
                 /\ IF AudioMissing(ParseArgs(cmd))
                      THEN /\ Say(p, [kind |-> "missing", audio |-> cmd.audio])
                           /\ steps' = [steps EXCEPT ![p] = <<"parse", "exists", "exit">>]
                           /\ exit' = [exit EXCEPT ![p] = ExitWith(1)]
                           /\ pc' = [pc EXCEPT ![p] = "exited"]
                      ELSE /\ console' = console
                           /\ steps' = [steps EXCEPT ![p] = <<"parse", "exists">>]
                           /\ exit' = exit
                           /\ pc' = [pc EXCEPT ![p] = "makedirs"]
  /\ UNCHANGED <<clock, dirs, files, now, output_dir, time_suffix, result, output_file,
                 loadCalls, transcribeCalls, failed, mkFault, dirsAfterMk, pb>>

\* create_datetime_directory
CreateDatetimeDirectory(p) ==
  /\ pc[p] = "makedirs"
  /\ LET t == TimeAt(clock)
         dir_path == DirPath(args[p].output, t)
     IN /\ now' = [now EXCEPT ![p] = t]
        /\ \E fault \in BOOLEAN :
             /\ mkFault' = [mkFault EXCEPT ![p] = fault]
             /\ IF MakedirsRaises(dir_path, dirs, fault)
                  THEN /\ \E len \in 0..Len(dir_path) :
                            dirs' = ExceptDirs(dirs \cup PartialDirs(dir_path, len), dir_path)
                       /\ Except(p, "makedirs")
                       /\ UNCHANGED <<output_dir, time_suffix>>
                  ELSE /\ dirs' = dirs \cup AncestorDirs(dir_path)
                       /\ output_dir' = [output_dir EXCEPT ![p] = Str(dir_path)]
                       /\ time_suffix' = [time_suffix EXCEPT ![p] = Str(TimeSuffix(t))]
                       /\ steps' = [steps EXCEPT ![p] = Append(@, "makedirs")]
                       /\ pc' = [pc EXCEPT ![p] = "load_model"]
                       /\ UNCHANGED <<failed, console, output_file, exit>>
  /\ dirsAfterMk' = [dirsAfterMk EXCEPT ![p] = dirs']
  /\ UNCHANGED <<clock, files, argv, args, result, loadCalls, transcribeCalls,
                 order, overlap, dirsAtStart, filesAtStart, pb>>

\* print, then whisper.load_model(model_name)
LoadModel(p) ==
  /\ pc[p] = "load_model"
  /\ loadCalls' = [loadCalls EXCEPT ![p] = Append(@, args[p].model)]
  /\ \E ok \in BOOLEAN :
       IF ok
         THEN /\ Say(p, [kind |-> "loading", model |-> args[p].model])
              /\ steps' = [steps EXCEPT ![p] = Append(@, "load_model")]
              /\ pc' = [pc EXCEPT ![p] = "transcribe"]
              /\ dirs' = dirs
              /\ UNCHANGED <<failed, output_file, exit>>
         ELSE /\ Except(p, "load_model")
              /\ dirs' = ExceptDirs(dirs, output_dir[p].s)
  /\ UNCHANGED <<clock, files, argv, args, now, output_dir, time_suffix, result,
                 transcribeCalls, mkFault, order, overlap, dirsAtStart, filesAtStart,
                 dirsAfterMk, pb>>

\* print, build the options, then model.transcribe(audio_path, **options)
Transcribe(p) ==
  /\ pc[p] = "transcribe"
  /\ transcribeCalls' = [transcribeCalls EXCEPT ![p] =
       Append(@, [audio |-> args[p].audio,
                  options |-> TranscribeOptions(args[p].language, Str(args[p].task))])]
  /\ \/ \E text \in Texts :
          /\ result' = [result EXCEPT ![p] = [text |-> text]]
          /\ Say(p, [kind |-> "transcribing", audio |-> args[p].audio])
          /\ steps' = [steps EXCEPT ![p] = Append(@, "transcribe")]
          /\ pc' = [pc EXCEPT ![p] = "open"]
          /\ dirs' = dirs
          /\ UNCHANGED <<failed, output_file, exit>>
     \/ /\ Except(p, "transcribe")
        /\ dirs' = ExceptDirs(dirs, output_dir[p].s)
        /\ result' = result
  /\ UNCHANGED <<clock, files, argv, args, now, output_dir, time_suffix,
                 loadCalls, mkFault, order, overlap, dirsAtStart, filesAtStart,
                 dirsAfterMk, pb>>

\* open(output_file, "w", encoding="utf-8")
Open(p) ==
  /\ pc[p] = "open"
  /\ LET path == OutputFile(output_dir[p].s, time_suffix[p].s)
     IN \E ok \in BOOLEAN :
          IF ok
            THEN /\ files' = (path :> [content |-> OpenTruncate(Content(files, path)),
                                       by |-> WriterOf(files, path)]) @@ files
                 /\ steps' = [steps EXCEPT ![p] = Append(@, "open")]
                 /\ pc' = [pc EXCEPT ![p] = "write"]
                 /\ dirs' = dirs
                 /\ UNCHANGED <<failed, console, output_file, exit>>
            ELSE /\ files' = files
                 /\ Except(p, "open")
                 /\ dirs' = ExceptDirs(dirs, output_dir[p].s)
  /\ UNCHANGED <<clock, argv, args, now, output_dir, time_suffix, result,
                 loadCalls, transcribeCalls, mkFault, order, overlap, dirsAtStart,
                 filesAtStart, dirsAfterMk, pb>>

\* f.write(result["text"]) and the close of the file, then the rest of
\* transcribe_audio and of main
Write(p) ==
  /\ pc[p] = "write"
  /\ LET path == OutputFile(output_dir[p].s, time_suffix[p].s)
         text == WrittenText(result[p])
     IN \/ /\ files' = [files EXCEPT ![path] =
                          [content |-> Overlay(@.content, text), by |-> p]]
           /\ Say(p, [kind |-> "saved", path |-> path])
           /\ output_file' = [output_file EXCEPT ![p] = Str(path)]
           /\ steps' = [steps EXCEPT ![p] = @ \o <<"write", "exit">>]
           /\ exit' = [exit EXCEPT ![p] = ExitWith(MainExit(Str(path)))]
           /\ pc' = [pc EXCEPT ![p] = "exited"]
           /\ dirs' = dirs
           /\ failed' = failed
        \/ /\ \E k \in {j \in 0..Len(text) : j < Len(text) \/ j = 0} :
                files' = [files EXCEPT ![path] =
                            [content |-> Overlay(@.content, SubSeq(text, 1, k)),
                             by |-> IF k > 0 THEN p ELSE @.by]]
           /\ Except(p, "write")
           /\ dirs' = ExceptDirs(dirs, output_dir[p].s)
  /\ UNCHANGED <<clock, argv, args, now, output_dir, time_suffix, result,
                 loadCalls, transcribeCalls, mkFault, order, overlap, dirsAtStart,
                 filesAtStart, dirsAfterMk, pb>>

\* a second passes
Tick ==
  /\ clock < MaxTick
  /\ clock' = clock + 1
  /\ UNCHANGED <<dirs, files, procVars, pb>>

Step(p) ==
  \/ CreateDatetimeDirectory(p)
  \/ LoadModel(p)
  \/ Transcribe(p)
  \/ Open(p)
  \/ Write(p)

\* the invocations run one after the other
Next == Tick \/ \E p \in Procs : Start(p, TRUE) \/ Step(p)
Spec == Init /\ [][Next]_vars

\* the invocations may run at the same time
NextConc == Tick \/ \E p \in Procs : Start(p, FALSE) \/ Step(p)
SpecConc == Init /\ [][NextConc]_vars

\* ------------------------------------ the path computation on its own
Years == {7, 1999, 2000, 2024, 2105}
Months == {1, 3, 12}
Days == {1, 7, 31}
Hours == {0, 14, 23}
Minutes == {0, 5, 59}
Seconds == {0, 9, 59}
Timestamps ==
  {[year |-> y, month |-> mo, day |-> d, hour |-> h, minute |-> mi, second |-> s] :
     y \in Years, mo \in Months, d \in Days, h \in Hours, mi \in Minutes, s \in Seconds}
Bases == {DefaultOutput, OtherOutput, <<>>, <<"/", "v">>, <<"a", "/", "b">>}

InitPath ==
  /\ ProcInit
  /\ \E base \in Bases, t \in Timestamps :
       pb = [base |-> base, t |-> t, called |-> FALSE,
             dir |-> <<>>, stem |-> <<>>, file |-> <<>>]

\* the values create_datetime_directory returns for pb.base at time pb.t, and
\* the output_file transcribe_audio builds from them
PathCall ==
  /\ ~pb.called
  /\ pb' = PathCalled(pb.base, pb.t)
  /\ UNCHANGED <<clock, dirs, files, procVars>>

NextPath == PathCall
SpecPath == InitPath /\ [][NextPath]_vars

\* ----------------------------------------------------------- properties
Last(s) == s[Len(s)]
Exited(p) == pc[p] = "exited"
Parsed(p) == args[p] # None
\* p is the invocation that started last: nothing ran after it
Latest(p) == Len(order) > 0 /\ Last(order) = p
\* the output path of an invocation that has read the clock
ComputedDir(p) == DirPath(args[p].output, now[p])
ComputedFile(p) == OutputFile(ComputedDir(p), TimeSuffix(now[p]))

\* C1: an invocation whose audio path does not exist exits with code 1
\* without calling load_model or transcribe, without reaching
\* create_datetime_directory and without creating a directory or a file.
C1_MissingAudioExits ==
  \A p \in Procs :
    (Parsed(p) /\ args[p].audio \notin AudioOnDisk) =>
      /\ Exited(p)
      /\ exit[p] = ExitWith(1)
      /\ Last(console[p]).kind = "missing"
      /\ loadCalls[p] = <<>>
      /\ transcribeCalls[p] = <<>>
      /\ now[p] = None
      /\ \A i \in 1..Len(steps[p]) : steps[p][i] \in {"parse", "exists", "exit"}
      /\ Latest(p) => (dirs = dirsAtStart[p] /\ files = filesAtStart[p])

C1_Witness ==
  \E p \in Procs :
    /\ Exited(p) /\ Parsed(p) /\ args[p].audio \notin AudioOnDisk
    /\ Len(order) = 2 /\ Latest(p) /\ dirs # {}

\* C2: when the audio exists and loading, transcription and writing all
\* succeed, the file at the computed path <output_dir>/<stem>.txt holds
\* exactly the engine's text, the path is the last thing printed and the
\* exit code is 0.
C2_SuccessWritesText ==
  \A p \in Procs :
    (Exited(p) /\ Parsed(p) /\ args[p].audio \in AudioOnDisk /\ failed[p] = "") =>
      /\ exit[p] = ExitWith(0)
      /\ Last(console[p]) = [kind |-> "saved", path |-> ComputedFile(p)]
      /\ output_file[p] = Str(ComputedFile(p))
      /\ ComputedFile(p) \in DOMAIN files
      /\ Latest(p) => files[ComputedFile(p)].content = result[p].text

C2_Witness ==
  \E p \in Procs :
    /\ exit[p] = ExitWith(0) /\ Latest(p) /\ Len(order) = 2
    /\ result[p].text # <<>>
    /\ files[ComputedFile(p)].content = result[p].text

\* C3: a failure of model loading, transcription or the file write is caught
\* in transcribe_audio: an error line is printed, the function returns None
\* and the process exits with code 1.
C3_FailureExitsOne ==
  \A p \in Procs :
    failed[p] # "" =>
      /\ Exited(p)
      /\ output_file[p] = None
      /\ exit[p] = ExitWith(1)
      /\ Last(console[p]) = [kind |-> "error", stage |-> failed[p]]

C3_Witness ==
  /\ \E p \in Procs : failed[p] = "write" /\ exit[p] = ExitWith(1)
  /\ \E p \in Procs : failed[p] = "load_model" /\ exit[p] = ExitWith(1)

\* C5 as stated: the options hold a language key exactly when --language was
\* given, with the given value.
C5_AsStated ==
  \A p \in Procs : \A i \in 1..Len(transcribeCalls[p]) :
    LET options == transcribeCalls[p][i].options
    IN /\ ("language" \in DOMAIN options) <=> (argv[p].language # None)
       /\ ("language" \in DOMAIN options) => options["language"] = argv[p].language.s

\* C5 amended: the options hold a language key exactly when --language was
\* given with a non-empty value, and then with that value; without the flag,
\* or with an empty value, the key is absent.
C5_LanguageIffNonEmpty ==
  \A p \in Procs : \A i \in 1..Len(transcribeCalls[p]) :
    LET options == transcribeCalls[p][i].options
    IN /\ ("language" \in DOMAIN options) <=>
            (argv[p].language # None /\ argv[p].language.s # "")
       /\ ("language" \in DOMAIN options) => options["language"] = argv[p].language.s
       /\ argv[p].language = None => "language" \notin DOMAIN options

C5_Witness ==
  /\ \E p \in Procs : /\ Len(transcribeCalls[p]) = 1
                      /\ argv[p].language = Str("")
                      /\ "language" \notin DOMAIN transcribeCalls[p][1].options
  /\ \E p \in Procs : /\ Len(transcribeCalls[p]) = 1
                      /\ argv[p].language = Str("en")
                      /\ "language" \in DOMAIN transcribeCalls[p][1].options

\* C6: every call of the engine's transcribe carries the task selector with
\* the requested task (transcribe when --task is not given).
C6_TaskAlwaysPassed ==
  \A p \in Procs : \A i \in 1..Len(transcribeCalls[p]) :
    LET options == transcribeCalls[p][i].options
    IN /\ "task" \in DOMAIN options
       /\ options["task"] = (IF argv[p].task = None THEN "transcribe" ELSE argv[p].task.s)

C6_Witness ==
  \E p \in Procs :
    /\ Len(transcribeCalls[p]) = 1
    /\ argv[p].task = Str("translate")
    /\ transcribeCalls[p][1].options["task"] = "translate"

\* C9: the steps of one invocation follow the fixed order parse, exists,
\* makedirs, load_model, transcribe, open, write, each at most once and none
\* skipped; a step that fails is the last one before the exit.
StepOrder == <<"parse", "exists", "makedirs", "load_model", "transcribe", "open", "write">>
C9_LinearSteps ==
  \A p \in Procs :
    LET body == IF Len(steps[p]) > 0 /\ Last(steps[p]) = "exit"
                  THEN SubSeq(steps[p], 1, Len(steps[p]) - 1) ELSE steps[p]
    IN /\ IsPrefix(body, StepOrder)
       /\ Len(loadCalls[p]) <= 1
       /\ Len(transcribeCalls[p]) <= 1
       /\ (Len(steps[p]) > 0 /\ Last(steps[p]) = "exit") <=> Exited(p)
       /\ failed[p] # "" => (Exited(p) /\ Last(body) = failed[p])

C9_Witness ==
  /\ \E p \in Procs : steps[p] = StepOrder \o <<"exit">>
  /\ \E p \in Procs : failed[p] = "transcribe" /\ Exited(p)

\* n < 100 written with exactly two decimal digits
TwoDigits(n) == <<DigitChar(n \div 10), DigitChar(n % 10)>>

\* the non-empty components of a path
RECURSIVE SplitFrom(_, _, _)
SplitFrom(path, i, word) ==
  IF i > Len(path) THEN (IF word = <<>> THEN <<>> ELSE <<word>>)
  ELSE IF path[i] = "/"
         THEN (IF word = <<>> THEN <<>> ELSE <<word>>) \o SplitFrom(path, i + 1, <<>>)
         ELSE SplitFrom(path, i + 1, Append(word, path[i]))
Components(path) == SplitFrom(path, 1, <<>>)
IsAbsolute(path) == Len(path) > 0 /\ path[1] = "/"

\* C4: for every valid timestamp and base directory the returned directory
\* is base/YY/MM/DDHH with YY the year modulo 100 and every field exactly
\* two digits, and the stem is the four digits mmss; at 2024-03-07 14:05:09
\* with base output the directory is output/24/03/0714, the stem 0509 and
\* the transcript file output/24/03/0714/0509.txt.
C4_PathFormat ==
  pb.called =>
    LET t == pb.t
        yy == TwoDigits(t.year % 100)
        mm == TwoDigits(t.month)
        ddhh == TwoDigits(t.day) \o TwoDigits(t.hour)
    IN /\ Components(pb.dir) = Components(pb.base) \o <<yy, mm, ddhh>>
       /\ IsAbsolute(pb.dir) = IsAbsolute(pb.base)
       /\ (Len(pb.base) > 0 /\ Last(pb.base) # "/") =>
            pb.dir = pb.base \o <<"/">> \o yy \o <<"/">> \o mm \o <<"/">> \o ddhh
       /\ pb.stem = TwoDigits(t.minute) \o TwoDigits(t.second)
       /\ Len(pb.stem) = 4
       /\ Components(pb.file) = Components(pb.dir) \o <<pb.stem \o <<".", "t", "x", "t">> >>
       /\ (pb.base = DefaultOutput /\ t = TimeAt(0)) =>
            /\ pb.dir = <<"o","u","t","p","u","t","/","2","4","/","0","3","/","0","7","1","4">>
            /\ pb.stem = <<"0","5","0","9">>
            /\ pb.file = <<"o","u","t","p","u","t","/","2","4","/","0","3","/",
                           "0","7","1","4","/","0","5","0","9",".","t","x","t">>

C4_Witness ==
  /\ pb.called /\ pb.base = DefaultOutput /\ pb.t = TimeAt(0)
  /\ pb.file = <<"o","u","t","p","u","t","/","2","4","/","0","3","/",
                 "0","7","1","4","/","0","5","0","9",".","t","x","t">>

\* two invocations that used the same base directory and read the clock in
\* the same second, and both succeeded
SameSecondPair(p, q) ==
  /\ p # q
  /\ exit[p] = ExitWith(0) /\ exit[q] = ExitWith(0)
  /\ args[p].output = args[q].output
  /\ now[p] = now[q]
  /\ order = <<p, q>>

\* C7 as stated: of two invocations in the same second the one that started
\* later leaves its transcript in the common file, however their steps
\* interleave.
C7_AsStated ==
  \A p, q \in Procs :
    SameSecondPair(p, q) =>
      /\ output_file[p] = output_file[q]
      /\ files[output_file[q].s].content = result[q].text

\* C7 amended: the two invocations compute the same file path; the file left
\* there begins with the transcript of the invocation whose write came last,
\* whichever started first; when the invocations ran one after the other that
\* is the later one and the file holds exactly its transcript.
C7_LastWriterWins ==
  \A p, q \in Procs :
    SameSecondPair(p, q) =>
      /\ output_file[p] = output_file[q]
      /\ LET f == files[output_file[q].s]
         IN /\ f.by \in {p, q}
            /\ IsPrefix(result[f.by].text, f.content)
            /\ ~overlap => (f.by = q /\ f.content = result[q].text)

C7_Witness ==
  \E p, q \in Procs :
    /\ SameSecondPair(p, q)
    /\ ~overlap
    /\ result[p].text # <<>>
    /\ result[q].text # result[p].text
    /\ files[output_file[q].s].content = result[q].text

\* C8: a second call of create_datetime_directory with the same base
\* directory in the same second returns the same directory and stem, raises
\* no error although the directory exists, and leaves the set of directories
\* as the first call left it.
C8_MakedirsIdempotent ==
  \A p, q \in Procs :
    ( /\ p # q /\ order = <<p, q>>
      /\ now[p] # None /\ now[q] # None /\ now[p] = now[q]
      /\ args[p].output = args[q].output
      /\ ~mkFault[p] /\ ~mkFault[q] ) =>
        /\ failed[q] # "makedirs"
        /\ output_dir[q] = output_dir[p]
        /\ time_suffix[q] = time_suffix[p]
        /\ output_dir[q].s \in dirsAfterMk[p]
        /\ dirsAfterMk[q] = dirsAfterMk[p]

C8_Witness ==
  \E p, q \in Procs :
    /\ p # q /\ order = <<p, q>>
    /\ now[p] # None /\ now[p] = now[q]
    /\ args[p].output = args[q].output
    /\ ~mkFault[p] /\ ~mkFault[q]
    /\ pc[q] = "load_model"
    /\ dirsAfterMk[q] = dirsAfterMk[p] /\ dirsAfterMk[q] # {}

\* C10 as stated: an invocation that ends in failure leaves every file as it
\* found it: none created, none changed.
C10_AsStated ==
  \A p \in Procs :
    (failed[p] # "" /\ Latest(p)) => files = filesAtStart[p]

\* C10 amended: an invocation that fails before its output file is open (in
\* makedirs, load_model, transcribe or open) leaves every file as it found
\* it; one whose write fails has created or emptied the file at its output
\* path, which then holds at most the beginning of the transcript, and has
\* changed no other file; in both cases the directories it created stay.
C10_FailureEffects ==
  \A p \in Procs :
    (failed[p] # "" /\ Latest(p)) =>
      /\ failed[p] # "write" => files = filesAtStart[p]
      /\ failed[p] = "write" =>
           /\ ComputedFile(p) \in DOMAIN files
           /\ IsPrefix(files[ComputedFile(p)].content, result[p].text)
           /\ files[ComputedFile(p)].content # result[p].text \/ result[p].text = <<>>
           /\ DOMAIN files = DOMAIN filesAtStart[p] \cup {ComputedFile(p)}
           /\ \A f \in DOMAIN filesAtStart[p] \ {ComputedFile(p)} : files[f] = filesAtStart[p][f]
      /\ failed[p] # "makedirs" => output_dir[p].s \in dirs
      /\ dirsAtStart[p] \subseteq dirs
      /\ dirs \ dirsAtStart[p] \subseteq AncestorDirs(ComputedDir(p))

C10_Witness ==
  \E p \in Procs :
    /\ failed[p] = "write" /\ Latest(p) /\ Len(order) = 2
    /\ ComputedFile(p) \in DOMAIN filesAtStart[p]
    /\ filesAtStart[p][ComputedFile(p)].content # <<>>
    /\ files[ComputedFile(p)].content = <<>>
====
